---- MODULE Spec2Model ----
(***************************************************************************)
(* A model of two files of the native engine's datafusion-ext-commons:     *)
(*   streams/ipc_stream.rs  IpcReaderStream, ReadableByteChannelReader,    *)
(*                          RecordBatchReader, get_*_reader                *)
(*   array_builder.rs       new_array_builder, builder_extend,             *)
(*                          builder_append_null, NullBuilder,              *)
(*                          ConfiguredDecimalBuilder                       *)
(* Seven specifications share the module:                                  *)
(*   Spec         the segment reader polled by its consumer                *)
(*   SpecChan     one channel adapter under read / close / drop            *)
(*   SpecBuilder  the typed builders under extend / append_null / finish   *)
(*   SpecDecimal  one ConfiguredDecimalBuilder under its own methods       *)
(*   SpecDispatch the dispatchers given a builder, a type and a source     *)
(*                that need not belong together                            *)
(*   SpecBatch    the builders of a schema filled and made into a batch    *)
(*   SpecRegion   a file-region source beside a channel source             *)
(***************************************************************************)
EXTENDS Integers, Sequences, FiniteSets, TLC

VARIABLES
    \* ---- Spec: IpcReaderStream and its external collaborators
    mode,         \* IpcReaderStream.mode
    ext,          \* the external segment sequence (foreign objects, in order)
    iterPos,      \* how many segments the external iterator has yielded
    reader,       \* IpcReaderStream.reader : Option<RecordBatchReader>
    sizeCounter,  \* IpcReaderStream.size_counter
    emitted,      \* history: the batches returned by poll_next, in order
    ret,          \* history: what the last poll (or drop) returned, and how many
                  \* segments the external sequence held when it was made
    dropped,      \* the IpcReaderStream has been dropped
    \* ---- SpecChan: one ReadableByteChannelReader
    ad,           \* the adapter: [ch |-> foreign channel, closed |-> flag]
    adLive,       \* the adapter has not been dropped
    adRet,        \* history: what the last adapter operation returned
    \* ---- SpecBuilder: one builder made by new_array_builder
    bType,        \* the data type the builder was made for
    bld,          \* the builder
    bFault,       \* "none", or the panic that ended the run
    bLast,        \* history: the last operation, the builder before it, the
                  \* source and indices it was given, the array it returned
    bRoom,        \* rows the driver may still append
    \* ---- SpecRegion: one file region beside a channel over the same bytes
    rgFile,       \* [seg, rd]: the file segment and the reader over its region
    rgChan,       \* [seg, rd]: the channel segment and the reader over it
    rgOut,        \* history: what next_batch returned, file |-> and chan |->
    \* ---- SpecBatch: the builders of one schema, filled and made a batch
    mbSchema,     \* the data types of the schema's fields, in field order
    mbBuilders,   \* the builders new_array_builders returned, in field order
    mbFault,      \* "none", or the panic that ended the run
    mbLog,        \* history: the source row each appended row came from, 0 for
                  \* a row appended by builder_append_null
    mbOut         \* what make_batch returned: [made, ok, columns]

streamVars == <<mode, ext, iterPos, reader, sizeCounter, emitted, ret, dropped>>
chanVars == <<ad, adLive, adRet>>
builderVars == <<bType, bld, bFault, bLast, bRoom>>
regionVars == <<rgFile, rgChan, rgOut>>
batchVars == <<mbSchema, mbBuilders, mbFault, mbLog, mbOut>>
vars == <<streamVars, chanVars, builderVars, regionVars, batchVars>>

\* ------------------------------------------------------------------ bounds
\* segments the external sequence may hold
MaxSegs == 2
\* wire messages one segment may hold
MaxBatches == 1
\* faults of the foreign side that leave a mark (see MarkedFaults) in one run
MaxFaults == 1
\* bytes of the channel driven in SpecChan, and the largest read buffer
MaxChanLen == 3
\* rows the driver of SpecBuilder appends in one run, and the longest index list
MaxRows == 2
\* bytes of the file in SpecRegion
MaxFileLen == 3
\* calls the driver of SpecDispatch makes on one builder
MaxCalls == 2
\* fields of the schema in SpecBatch
MaxFields == 2

Min(a, b) == IF a <= b THEN a ELSE b

\* What a foreign call may do in one operation: nothing goes wrong, or every
\* call of one kind made during the operation raises a Java exception.
Faults == {"none", "hasNext", "next", "open", "read", "close"}

\* Faults that leave a mark on the foreign objects are rationed: a close()
\* that raised, and a segment pulled for which no decoder could be built.
\* segs are the objects, pulled how many of them the iterator has yielded.
RECURSIVE MarkedFaults(_, _)
MarkedFaults(segs, pulled) ==
    IF segs = <<>> THEN 0
    ELSE LET s == segs[Len(segs)] IN
         s.ch.closeFaults
             + (IF Len(segs) <= pulled /\ ~s.wrapped THEN 1 ELSE 0)
             + MarkedFaults(SubSeq(segs, 1, Len(segs) - 1), pulled)

FaultAllowed(f, segs, pulled) ==
    f \in {"close", "open"} => MarkedFaults(segs, pulled) < MaxFaults

\* ------------------------------------------------- foreign channel (Java)
\* A java.nio ReadableByteChannel as the adapter sees it.  closeCalls,
\* and closeFaults are history: how often close() was invoked on it and how
\* many of those calls raised.
NewChannel(bytes) ==
    [data |-> bytes, pos |-> 0, open |-> TRUE, closeCalls |-> 0, closeFaults |-> 0]

\* JavaReadableByteChannel.close(): raises, or closes the channel.
JavaClose(ch, fault) ==
    IF fault
    THEN [ch EXCEPT !.closeCalls = @ + 1, !.closeFaults = @ + 1]
    ELSE [ch EXCEPT !.closeCalls = @ + 1, !.open = FALSE]

\* ------------------------------------------- ReadableByteChannelReader
\* ReadableByteChannelReader::new
NewAdapter(ch) == [ch |-> ch, closed |-> FALSE]

\* ReadableByteChannelReader::close -> [a, ok]
RBCClose(a, f) ==
    IF ~a.closed
    THEN IF f = "close"
         THEN [a |-> [a EXCEPT !.ch = JavaClose(a.ch, TRUE)], ok |-> FALSE]
         ELSE [a |-> [ch |-> JavaClose(a.ch, FALSE), closed |-> TRUE], ok |-> TRUE]
    ELSE [a |-> a, ok |-> TRUE]

\* a read that asks the foreign channel once and returns what it got
RBCReadLoopOnce(a, got, calls, n, chunk, f) ==
    IF Len(got) < n
    THEN IF f = "read" \/ ~a.ch.open
         THEN [a |-> a, ok |-> FALSE, bytes |-> <<>>, calls |-> calls + 1]
         ELSE LET k == Min(chunk, Min(n - Len(got), Len(a.ch.data) - a.ch.pos)) IN
              [a |-> [a EXCEPT !.ch.pos = @ + k], ok |-> TRUE,
               bytes |-> got \o SubSeq(a.ch.data, a.ch.pos + 1, a.ch.pos + k),
               calls |-> calls + 1]
    ELSE [a |-> a, ok |-> TRUE, bytes |-> got, calls |-> calls]

\* The while loop of Read::read: got is what the buffer of length n holds so
\* far, calls the foreign reads made so far in this call; chunk is the most
\* the foreign read hands over in one call.
RECURSIVE RBCReadLoop(_, _, _, _, _, _)
RBCReadLoop(a, got, calls, n, chunk, f) ==
    IF Len(got) < n
    THEN IF f = "read" \/ ~a.ch.open
         THEN [a |-> a, ok |-> FALSE, bytes |-> <<>>, calls |-> calls + 1]
         ELSE IF a.ch.pos >= Len(a.ch.data)
              THEN LET c == RBCClose(a, f) IN
                   IF c.ok
                   THEN [a |-> c.a, ok |-> TRUE, bytes |-> got, calls |-> calls + 1]
                   ELSE [a |-> c.a, ok |-> FALSE, bytes |-> <<>>, calls |-> calls + 1]
              ELSE LET k == Min(chunk, Min(n - Len(got), Len(a.ch.data) - a.ch.pos)) IN
                   RBCReadLoop(
                       [a EXCEPT !.ch.pos = @ + k],
                       got \o SubSeq(a.ch.data, a.ch.pos + 1, a.ch.pos + k),
                       calls + 1, n, chunk, f)
    ELSE [a |-> a, ok |-> TRUE, bytes |-> got, calls |-> calls]

\* a read without the closed check
RBCReadNoGuard(a, n, chunk, f) == RBCReadLoop(a, <<>>, 0, n, chunk, f)

\* Read for ReadableByteChannelReader -> [a, ok, bytes, calls]
RBCRead(a, n, chunk, f) ==
    IF a.closed
    THEN [a |-> a, ok |-> TRUE, bytes |-> <<>>, calls |-> 0]
    ELSE RBCReadLoop(a, <<>>, 0, n, chunk, f)

\* an adapter with no Drop impl: the channel is left as it is
RBCDropNoClose(a, f) == a

\* Drop for ReadableByteChannelReader: let _ = self.close()
RBCDrop(a, f) == RBCClose(a, f).a

\* ------------------------------------------------------- wire messages
\* One wire message is one token of a segment's bytes: "u" an uncompressed
\* batch message, "z" a compressed batch message, "x" malformed bytes.
Modes == {"ChannelUncompressed", "Channel", "ChannelAndFileSegment"}

\* What the producer feeding a reader of this mode writes (IpcReadMode's
\* comments: ConvertToNative writes uncompressed, the exchanges compressed).
WireToken(m) == IF m = "ChannelUncompressed" THEN "u" ELSE "z"

\* a batch is known by the segment and the position it was decoded from
Batch(i, j) == [seg |-> i, idx |-> j]

\* batch_byte_size: a positive size that depends on the batch
BatchByteSize(b) == b.idx

\* read_one_batch applied to what one read of the input returned, decoding
\* under the reader's compression flag: end-of-data on no bytes, a decode
\* fault on malformed bytes or bytes of the other format, else the batch.
ReadOneBatch(rd, compress, i, j) ==
    IF ~rd.ok THEN [kind |-> "err", why |-> "io"]
    ELSE IF rd.bytes = <<>> THEN [kind |-> "none"]
    ELSE IF rd.bytes[1] = (IF compress THEN "z" ELSE "u")
         THEN [kind |-> "some", batch |-> Batch(i, j)]
         ELSE [kind |-> "err", why |-> "decode"]

\* ------------------------------------------------- external segments
\* A segment object of the external sequence.  ch is the stream behind it:
\* the foreign channel, or the file a FileSegment names (open once opened).
ChannelSegment(bytes) ==
    [kind |-> "channel", ch |-> NewChannel(bytes),
     offset |-> 0, length |-> 0, wrapped |-> FALSE]

FileSegment(bytes, offset, length) ==
    [kind |-> "file", ch |-> [NewChannel(bytes) EXCEPT !.open = FALSE],
     offset |-> offset, length |-> length, wrapped |-> FALSE]

\* ---------------------------------------------------- RecordBatchReader
None == [some |-> FALSE]

\* get_channel_reader -> the reader over segment i
GetChannelReader(i, compressed) ==
    [some |-> TRUE, seg |-> i, src |-> "channel", compress |-> compressed,
     closed |-> FALSE, limit |-> 0]

\* get_file_segment_reader without take: the input is the file to its end
GetFileSegmentReaderNoTake(i, seg) ==
    [some |-> TRUE, seg |-> i, src |-> "file", compress |-> TRUE,
     closed |-> FALSE, limit |-> Len(seg.ch.data)]

\* get_file_segment_reader: file.take(length), compression on
GetFileSegmentReader(i, seg) ==
    [some |-> TRUE, seg |-> i, src |-> "file", compress |-> TRUE,
     closed |-> FALSE, limit |-> seg.length]

\* File::open and seek(Start(offset)) on the segment's file
OpenFile(seg) == [seg EXCEPT !.ch.open = TRUE, !.ch.pos = seg.offset, !.wrapped = TRUE]

\* Read for Take<File>: at most limit more bytes, then end-of-data; chunk is
\* the most the file hands over in one call -> [fl, limit, ok, bytes]
FileTakeRead(fl, limit, n, chunk, f) ==
    IF limit = 0 \/ n = 0
    THEN [fl |-> fl, limit |-> limit, ok |-> TRUE, bytes |-> <<>>]
    ELSE IF f = "read"
         THEN [fl |-> fl, limit |-> limit, ok |-> FALSE, bytes |-> <<>>]
         ELSE LET avail == IF fl.pos < Len(fl.data) THEN Len(fl.data) - fl.pos ELSE 0
                  k == Min(chunk, Min(Min(n, limit), avail))
              IN  [fl |-> [fl EXCEPT !.pos = @ + k], limit |-> limit - k,
                   ok |-> TRUE, bytes |-> SubSeq(fl.data, fl.pos + 1, fl.pos + k)]

\* self.input.read(buf) for a buffer of n bytes -> [r, seg, ok, bytes]
InputRead(r, seg, n, chunk, f) ==
    IF r.src = "channel"
    THEN LET rd == RBCRead([ch |-> seg.ch, closed |-> r.closed], n, chunk, f) IN
         [r |-> [r EXCEPT !.closed = rd.a.closed],
          seg |-> [seg EXCEPT !.ch = rd.a.ch], ok |-> rd.ok, bytes |-> rd.bytes]
    ELSE LET rd == FileTakeRead(seg.ch, r.limit, n, chunk, f) IN
         [r |-> [r EXCEPT !.limit = rd.limit],
          seg |-> [seg EXCEPT !.ch = rd.fl], ok |-> rd.ok, bytes |-> rd.bytes]

\* RecordBatchReader::next_batch: one message is read and decoded
\* -> [r, seg, res]
NextBatch(r, seg, f) ==
    LET rd == InputRead(r, seg, 1, 1, f) IN
    [r |-> rd.r, seg |-> rd.seg,
     res |-> ReadOneBatch(rd, r.compress, r.seg, rd.seg.ch.pos - seg.offset)]

\* dropping a RecordBatchReader drops its input: the adapter closes its
\* channel (Drop for ReadableByteChannelReader), a File closes its handle
DropInput(r, seg, f) ==
    IF r.src = "channel"
    THEN [seg EXCEPT !.ch = RBCDrop([ch |-> seg.ch, closed |-> r.closed], f).ch]
    ELSE [seg EXCEPT !.ch = JavaClose(seg.ch, FALSE)]

\* ------------------------------------------------------ IpcReaderStream
\* w = [reader, ext, iterPos, size]: the stream and the foreign objects
DropReader(w, f) ==
    IF w.reader.some
    THEN [w EXCEPT !.ext[w.reader.seg] = DropInput(w.reader, w.ext[w.reader.seg], f),
                   !.reader = None]
    ELSE w

\* next_segment without the class-name test: every segment of the adaptive
\* mode is read as a channel
MakeReaderNoKind(m, i, seg) ==
    [reader |-> GetChannelReader(i, m # "ChannelUncompressed"),
     seg |-> [seg EXCEPT !.wrapped = TRUE]]

\* the match of next_segment: the decoder for segment i under mode m
\* -> [reader, seg]
MakeReader(m, i, seg) ==
    IF m = "ChannelUncompressed"
    THEN [reader |-> GetChannelReader(i, FALSE), seg |-> [seg EXCEPT !.wrapped = TRUE]]
    ELSE IF m = "Channel"
    THEN [reader |-> GetChannelReader(i, TRUE), seg |-> [seg EXCEPT !.wrapped = TRUE]]
    ELSE IF seg.kind = "file"
         THEN [reader |-> GetFileSegmentReader(i, seg), seg |-> OpenFile(seg)]
         ELSE [reader |-> GetChannelReader(i, TRUE), seg |-> [seg EXCEPT !.wrapped = TRUE]]

\* next_segment that gives up the old decoder before it asks for the next
\* segment
NextSegmentDropFirst(w, m, f) ==
    LET old == DropReader(w, "none") IN
    IF f = "hasNext" THEN [w |-> old, res |-> "err"]
    ELSE IF ~(w.iterPos < Len(w.ext)) THEN [w |-> old, res |-> "false"]
    ELSE IF f = "next" THEN [w |-> old, res |-> "err"]
    ELSE LET i == w.iterPos + 1
             pulled == [old EXCEPT !.iterPos = i]
         IN  IF f = "open" THEN [w |-> pulled, res |-> "err"]
             ELSE LET mk == MakeReader(m, i, w.ext[i])
                  IN  [w |-> [pulled EXCEPT !.reader = mk.reader, !.ext[i] = mk.seg],
                       res |-> "true"]

\* next_segment that forgets the old decoder without dropping it
NextSegmentKeepOld(w, m, f) ==
    IF f = "hasNext" THEN [w |-> w, res |-> "err"]
    ELSE IF ~(w.iterPos < Len(w.ext))
    THEN [w |-> [w EXCEPT !.reader = None], res |-> "false"]
    ELSE IF f = "next" THEN [w |-> w, res |-> "err"]
    ELSE LET i == w.iterPos + 1
             pulled == [w EXCEPT !.iterPos = i]
         IN  IF f = "open" THEN [w |-> pulled, res |-> "err"]
             ELSE LET mk == MakeReader(m, i, w.ext[i])
                  IN  [w |-> [pulled EXCEPT !.reader = mk.reader, !.ext[i] = mk.seg],
                       res |-> "true"]

\* IpcReaderStream::next_segment -> [w, res] with res "true", "false", "err"
NextSegment(w, m, f) ==
    IF f = "hasNext" THEN [w |-> w, res |-> "err"]
    ELSE IF ~(w.iterPos < Len(w.ext))
    THEN [w |-> DropReader(w, f), res |-> "false"]
    ELSE IF f = "next" THEN [w |-> w, res |-> "err"]
    ELSE LET i == w.iterPos + 1
             pulled == [w EXCEPT !.iterPos = i]
         IN  IF f = "open" THEN [w |-> pulled, res |-> "err"]
             ELSE LET mk == MakeReader(m, i, w.ext[i])
                      old == DropReader(pulled, f)
                  IN  [w |-> [old EXCEPT !.reader = mk.reader, !.ext[i] = mk.seg],
                       res |-> "true"]

\* Stream::poll_next -> [w, out]; out is the item the poll is ready with
RECURSIVE PollNext(_, _, _)
\* poll_next without "return self.poll_next(cx)": a new segment is installed
\* and the poll falls through to Ready(None)
PollNextNoRetry(w, m, f) ==
    LET nb == IF w.reader.some
              THEN NextBatch(w.reader, w.ext[w.reader.seg], f)
              ELSE [res |-> [kind |-> "none"]]
        w1 == IF w.reader.some
              THEN [w EXCEPT !.reader = nb.r, !.ext[w.reader.seg] = nb.seg]
              ELSE w
    IN  IF nb.res.kind = "err"
        THEN [w |-> w1, out |-> [kind |-> "err", why |-> nb.res.why, seg |-> w.reader.seg]]
        ELSE IF nb.res.kind = "some"
        THEN [w |-> [w1 EXCEPT !.size = @ + BatchByteSize(nb.res.batch)],
              out |-> [kind |-> "batch", batch |-> nb.res.batch]]
        ELSE LET ns == NextSegment(w1, m, f) IN
             IF ns.res = "err"
             THEN [w |-> ns.w, out |-> [kind |-> "err", why |-> "jni", seg |-> 0]]
             ELSE [w |-> ns.w, out |-> [kind |-> "eos"]]

\* poll_next without size_counter.add
PollNextNoCount(w, m, f) ==
    LET nb == IF w.reader.some
              THEN NextBatch(w.reader, w.ext[w.reader.seg], f)
              ELSE [res |-> [kind |-> "none"]]
        w1 == IF w.reader.some
              THEN [w EXCEPT !.reader = nb.r, !.ext[w.reader.seg] = nb.seg]
              ELSE w
    IN  IF nb.res.kind = "err"
        THEN [w |-> w1, out |-> [kind |-> "err", why |-> nb.res.why, seg |-> w.reader.seg]]
        ELSE IF nb.res.kind = "some"
        THEN [w |-> w1, out |-> [kind |-> "batch", batch |-> nb.res.batch]]
        ELSE LET ns == NextSegment(w1, m, f) IN
             IF ns.res = "err"
             THEN [w |-> ns.w, out |-> [kind |-> "err", why |-> "jni", seg |-> 0]]
             ELSE IF ns.res = "true"
             THEN PollNext(ns.w, m, f)
             ELSE [w |-> ns.w, out |-> [kind |-> "eos"]]

PollNext(w, m, f) ==
    LET nb == IF w.reader.some
              THEN NextBatch(w.reader, w.ext[w.reader.seg], f)
              ELSE [res |-> [kind |-> "none"]]
        w1 == IF w.reader.some
              THEN [w EXCEPT !.reader = nb.r, !.ext[w.reader.seg] = nb.seg]
              ELSE w
    IN  IF nb.res.kind = "err"
        THEN [w |-> w1, out |-> [kind |-> "err", why |-> nb.res.why, seg |-> w.reader.seg]]
        ELSE IF nb.res.kind = "some"
        THEN [w |-> [w1 EXCEPT !.size = @ + BatchByteSize(nb.res.batch)],
              out |-> [kind |-> "batch", batch |-> nb.res.batch]]
        ELSE LET ns == NextSegment(w1, m, f) IN
             IF ns.res = "err"
             THEN [w |-> ns.w, out |-> [kind |-> "err", why |-> "jni", seg |-> 0]]
             ELSE IF ns.res = "true"
             THEN PollNext(ns.w, m, f)
             ELSE [w |-> ns.w, out |-> [kind |-> "eos"]]

\* ------------------------------------------------------------ DataType
\* arrow's DataType, as far as the dispatchers look into it
DT(tag) ==
    [tag |-> tag, unit |-> "", tz |-> "", precision |-> 0, scale |-> 0,
     key |-> "", value |-> ""]

Timestamp(unit, tz) == [DT("Timestamp") EXCEPT !.unit = unit, !.tz = tz]

Time32(unit) == [DT("Time32") EXCEPT !.unit = unit]

Time64(unit) == [DT("Time64") EXCEPT !.unit = unit]

Decimal128(p, sc) == [DT("Decimal128") EXCEPT !.precision = p, !.scale = sc]

Decimal256(p, sc) == [DT("Decimal256") EXCEPT !.precision = p, !.scale = sc]

Dictionary(k, v) == [DT("Dictionary") EXCEPT !.key = k, !.value = v]

\* the key types of the @match_key arms
IntTags == {"Int8", "Int16", "Int32", "Int64", "UInt8", "UInt16", "UInt32", "UInt64"}

\* the value types of the @prim / @make arms
PrimTags == IntTags \cup {"Float32", "Float64", "Date32", "Date64"}

\* the unit-less types of the append_simple! arms
PlainTags == {"Boolean"} \cup PrimTags \cup {"Binary", "LargeBinary", "Utf8", "LargeUtf8"}

TimeUnits == {"Second", "Millisecond", "Microsecond", "Nanosecond"}

\* the bits a dictionary key type has for a non-negative key
KeyBits(k) ==
    CASE k = "Int8" -> 7
      [] k = "UInt8" -> 8
      [] k = "Int16" -> 15
      [] k = "UInt16" -> 16
      [] k = "Int32" -> 31
      [] k = "UInt32" -> 32
      [] k = "Int64" -> 63
      [] OTHER -> 64

\* K::Native::from_usize(key) is Some: the key type can hold the key (a key
\* is a count of interned values, far below 2^31 in any run of the model)
KeyFits(k, key) == KeyBits(k) >= 31 \/ key < 2 ^ KeyBits(k)

\* --------------------------------------------------- arrays and builders
\* one slot of a column: the validity bit and the value (a dictionary key
\* for the keys of a dictionary column)
NullSlot == [valid |-> FALSE, v |-> 0]

Slot(x) == [valid |-> TRUE, v |-> x]

\* An Array: its data type, its slots, and for a DictionaryArray its values
Array(dt, rows, values) == [dt |-> dt, rows |-> rows, values |-> values]

\* NullArray::new(n)
NullArray(n) == Array(DT("Null"), [j \in 1..n |-> NullSlot], <<>>)

\* the $arrowty of the arm that handles dt: the concrete builder is
\* <$arrowty>Builder, the concrete array <$arrowty>Array
ArrowTy(dt) ==
    CASE dt.tag = "Utf8" -> <<"String", "">>
      [] dt.tag = "LargeUtf8" -> <<"LargeString", "">>
      [] dt.tag \in {"Timestamp", "Time32", "Time64"} -> <<dt.tag, dt.unit>>
      [] OTHER -> <<dt.tag, "">>

\* A builder: cls names its concrete Rust type (what downcast_mut sees),
\* dt is the data type a default builder was made for, precision and scale
\* the fields of ConfiguredDecimalBuilder, rows the slots appended, values
\* the values a dictionary builder has interned, len NullBuilder's counter.
Builder(cls, dt, p, sc) ==
    [cls |-> cls, dt |-> dt, precision |-> p, scale |-> sc,
     rows |-> <<>>, values |-> <<>>, len |-> 0]

NoBuilder == Builder(<<"", "", "">>, DT(""), 0, 0)

\* make_builder(dt, batch_size) of arrow
MakeBuilder(dt) == Builder(<<"Builder">> \o ArrowTy(dt), dt, 0, 0)

\* the types make_builder is handed and has a builder for
MakeBuilderTypes ==
    {DT(t) : t \in PlainTags}
        \cup {Timestamp(u, tz) : u \in TimeUnits, tz \in {"", "UTC"}}
        \cup {Time32("Second"), Time32("Millisecond"),
              Time64("Microsecond"), Time64("Nanosecond")}

\* new_array_builder -> [b, fault]
NewArrayBuilder(dt) ==
    CASE dt.tag = "Null" ->
           [b |-> Builder(<<"NullBuilder", "", "">>, DT(""), 0, 0), fault |-> "none"]
      [] dt.tag \in {"Decimal128", "Decimal256"} ->
           [b |-> Builder(<<"ConfiguredDecimalBuilder", dt.tag, "">>, DT(""),
                          dt.precision, dt.scale),
            fault |-> "none"]
      [] dt.tag = "Dictionary" ->
           IF dt.key \notin IntTags
           THEN [b |-> NoBuilder, fault |-> "unimplemented"]
           ELSE IF dt.value \in PrimTags
           THEN [b |-> Builder(<<"PrimitiveDictionaryBuilder", dt.key, dt.value>>,
                               DT(""), 0, 0),
                 fault |-> "none"]
           ELSE IF dt.value \in {"Utf8", "LargeUtf8"}
           THEN [b |-> Builder(<<"StringDictionaryBuilder", dt.key, "">>, DT(""), 0, 0),
                 fault |-> "none"]
           ELSE [b |-> NoBuilder, fault |-> "unimplemented"]
      [] OTHER ->
           IF dt \in MakeBuilderTypes
           THEN [b |-> MakeBuilder(dt), fault |-> "none"]
           ELSE [b |-> NoBuilder, fault |-> "unimplemented"]

\* ArrayBuilder::len
BuilderLen(b) == IF b.cls[1] = "NullBuilder" THEN b.len ELSE Len(b.rows)

\* the data type of the array a builder's finish returns
FinishType(b) ==
    CASE b.cls[1] = "NullBuilder" -> DT("Null")
      [] b.cls[1] = "ConfiguredDecimalBuilder" ->
           [DT(b.cls[2]) EXCEPT !.precision = b.precision, !.scale = b.scale]
      [] b.cls[1] = "PrimitiveDictionaryBuilder" -> Dictionary(b.cls[2], b.cls[3])
      [] b.cls[1] = "StringDictionaryBuilder" -> Dictionary(b.cls[2], "Utf8")
      [] OTHER -> b.dt

\* arrow's with_precision_and_scale(p, s) is Ok: the precision is within the
\* width's maximum, the scale within it too and not above the precision
WithPrecisionAndScale(tag, p, s) ==
    LET max == IF tag = "Decimal128" THEN 38 ELSE 76 IN
    p <= max /\ s <= max /\ (s > 0 => s <= p)

\* the panic of finish and finish_cloned: the unwrap of ConfiguredDecimalBuilder
FinishFault(b) ==
    IF b.cls[1] = "ConfiguredDecimalBuilder"
           /\ ~WithPrecisionAndScale(b.cls[2], b.precision, b.scale)
    THEN "unwrap" ELSE "none"

\* ArrayBuilder::finish_cloned -> the array
FinishCloned(b) ==
    IF b.cls[1] = "NullBuilder"
    THEN NullArray(b.len)
    ELSE Array(FinishType(b), b.rows, b.values)

\* ArrayBuilder::finish -> [b, array]: NullBuilder's is finish_cloned, the
\* others hand their buffers over and start empty
Finish(b) ==
    IF b.cls[1] = "NullBuilder"
    THEN [b |-> b, array |-> FinishCloned(b)]
    ELSE [b |-> [b EXCEPT !.rows = <<>>, !.values = <<>>], array |-> FinishCloned(b)]

\* ConfiguredDecimalBuilder::with_capacity
WithCapacity(tag, p, s) == Builder(<<"ConfiguredDecimalBuilder", tag, "">>, DT(""), p, s)

\* ConfiguredDecimalBuilder::append_option, ::append_value, ::append_null
AppendOption(b, slot) == [b EXCEPT !.rows = Append(@, slot)]

AppendValue(b, v) == AppendOption(b, Slot(v))

AppendNull(b) == AppendOption(b, NullSlot)

\* the position of value x among the interned values, 0 when it is not there
Interned(values, x) ==
    IF \E p \in 1..Len(values) : values[p] = x
    THEN CHOOSE p \in 1..Len(values) : values[p] = x
    ELSE 0

\* PrimitiveDictionaryBuilder::append / StringDictionaryBuilder::append
\* -> [b, ok]: a value not interned yet takes the next key, and a key the
\* key type cannot hold is DictionaryKeyOverflowError with nothing appended
DictAppend(b, x) ==
    LET at == Interned(b.values, x) IN
    IF at > 0
    THEN [b |-> [b EXCEPT !.rows = Append(@, Slot(at - 1))], ok |-> TRUE]
    ELSE IF ~KeyFits(b.cls[2], Len(b.values))
    THEN [b |-> b, ok |-> FALSE]
    ELSE [b |-> [b EXCEPT !.values = Append(@, x),
                          !.rows = Append(@, Slot(Len(b.values)))],
          ok |-> TRUE]

\* one turn of the loop of append_simple! and append_decimal!
AppendSimpleRow(b, f, i) ==
    [b EXCEPT !.rows = Append(@, IF f.rows[i].valid THEN f.rows[i] ELSE NullSlot)]

\* the loop over indices, first to last; it is evaluated by halves, the
\* first half to its end before the second is entered
RECURSIVE AppendSimple(_, _, _)
AppendSimple(b, f, indices) ==
    IF indices = <<>> THEN b
    ELSE IF Len(indices) = 1 THEN AppendSimpleRow(b, f, indices[1])
    ELSE LET h == Len(indices) \div 2
             first == AppendSimple(b, f, SubSeq(indices, 1, h))
         IN  IF Len(first.rows) >= Len(b.rows)
             THEN AppendSimple(first, f, SubSeq(indices, h + 1, Len(indices)))
             ELSE first

\* one turn of the loop of append_dict! @prim and @str:
\* let _ = t.append(value of key i), or t.append_null()
AppendDictRow(b, f, i) ==
    IF f.rows[i].valid
    THEN DictAppend(b, f.values[f.rows[i].v + 1]).b
    ELSE [b EXCEPT !.rows = Append(@, NullSlot)]

\* the loop over indices, first to last; it is evaluated by halves, the
\* first half to its end before the second is entered
RECURSIVE AppendDict(_, _, _)
AppendDict(b, f, indices) ==
    IF indices = <<>> THEN b
    ELSE IF Len(indices) = 1 THEN AppendDictRow(b, f, indices[1])
    ELSE LET h == Len(indices) \div 2
             first == AppendDict(b, f, SubSeq(indices, 1, h))
         IN  IF Len(first.rows) >= Len(b.rows)
             THEN AppendDict(first, f, SubSeq(indices, h + 1, Len(indices)))
             ELSE first

\* the builder class an arm of builder_extend / builder_append_null
\* downcasts to; <<"">> when the match has no arm for dt
ExtendClass(dt) ==
    CASE dt.tag = "Null" -> <<"NullBuilder", "", "">>
      [] dt \in MakeBuilderTypes -> <<"Builder">> \o ArrowTy(dt)
      [] dt.tag \in {"Decimal128", "Decimal256"} ->
           <<"ConfiguredDecimalBuilder", dt.tag, "">>
      [] dt.tag = "Dictionary" /\ dt.key \in IntTags /\ dt.value \in PrimTags ->
           <<"PrimitiveDictionaryBuilder", dt.key, dt.value>>
      [] dt.tag = "Dictionary" /\ dt.key \in IntTags /\ dt.value \in {"Utf8", "LargeUtf8"} ->
           <<"StringDictionaryBuilder", dt.key, "">>
      [] OTHER -> <<"">>

AppendNullClass(dt) ==
    CASE dt.tag = "Null" -> <<"NullBuilder", "", "">>
      [] dt \in MakeBuilderTypes -> <<"Builder">> \o ArrowTy(dt)
      [] dt.tag \in {"Decimal128", "Decimal256"} ->
           <<"ConfiguredDecimalBuilder", dt.tag, "">>
      [] OTHER -> <<"">>

\* the concrete array type of a column of type dt: what downcast_ref sees,
\* and what the arm for dt downcasts its source (and a dictionary's values) to
ArrayClass(dt) ==
    CASE dt.tag = "Null" -> <<"NullArray", "", "">>
      [] dt.tag = "Dictionary" -> <<"DictionaryArray", dt.key, ArrowTy(DT(dt.value))[1]>>
      [] OTHER -> <<"Array">> \o ArrowTy(dt)

\* builder_extend -> [b, fault]: each arm downcasts the builder, then the
\* source (the Null arm never looks at the source), then runs its loop
BuilderExtend(builder, array, indices, dt) ==
    LET cls == ExtendClass(dt) IN
    IF cls = <<"">> THEN [b |-> builder, fault |-> "unimplemented"]
    ELSE IF builder.cls # cls THEN [b |-> builder, fault |-> "unwrap"]
    ELSE IF dt.tag # "Null" /\ ArrayClass(array.dt) # ArrayClass(dt)
    THEN [b |-> builder, fault |-> "unwrap"]
    ELSE IF dt.tag = "Null"
    THEN [b |-> [builder EXCEPT !.len = @ + Len(indices)], fault |-> "none"]
    ELSE IF dt.tag = "Dictionary"
    THEN [b |-> AppendDict(builder, array, indices), fault |-> "none"]
    ELSE [b |-> AppendSimple(builder, array, indices), fault |-> "none"]

\* builder_append_null -> [b, fault]
BuilderAppendNull(builder, dt) ==
    LET cls == AppendNullClass(dt) IN
    IF cls = <<"">> THEN [b |-> builder, fault |-> "unimplemented"]
    ELSE IF builder.cls # cls THEN [b |-> builder, fault |-> "unwrap"]
    ELSE IF dt.tag = "Null"
    THEN [b |-> [builder EXCEPT !.len = @ + 1], fault |-> "none"]
    ELSE [b |-> [builder EXCEPT !.rows = Append(@, NullSlot)], fault |-> "none"]

\* new_array_builders -> one [b, fault] per field, in field order
NewArrayBuilders(schema) == [c \in 1..Len(schema) |-> NewArrayBuilder(schema[c])]

\* RecordBatch::try_new(schema, columns) is Ok: one column per field, each
\* of its field's data type, all of one length
RecordBatchTryNew(schema, columns) ==
    /\ Len(columns) = Len(schema)
    /\ \A c \in 1..Len(columns) : columns[c].dt = schema[c]
    /\ \A c, d \in 1..Len(columns) : Len(columns[c].rows) = Len(columns[d].rows)

\* make_batch -> [arrays, ok, columns]: every builder is finished, in order
MakeBatch(schema, arrays) ==
    LET columns == [c \in 1..Len(arrays) |-> Finish(arrays[c]).array] IN
    [arrays |-> [c \in 1..Len(arrays) |-> Finish(arrays[c]).b],
     ok |-> RecordBatchTryNew(schema, columns),
     columns |-> columns]

\* ---------------------------------------------------------------- Spec
\* the variables of a specification that is not running keep these values
StreamIdle ==
    /\ mode = "Channel"
    /\ ext = <<>>
    /\ iterPos = 0
    /\ reader = None
    /\ sizeCounter = 0
    /\ emitted = <<>>
    /\ ret = [op |-> "new"]
    /\ dropped = FALSE

ChanIdle ==
    /\ ad = NewAdapter(NewChannel(<<>>))
    /\ adLive = FALSE
    /\ adRet = [op |-> "new"]

\* what bLast holds for an operation that takes no source and returns no array
NoArray == NullArray(0)

BuilderIdle ==
    /\ bType = DT("Null")
    /\ bld = NoBuilder
    /\ bFault = "none"
    /\ bLast = [op |-> "new", dt |-> DT("Null"), before |-> NoBuilder, src |-> NoArray,
                idx |-> <<>>, out |-> NoArray]
    /\ bRoom = 0

RegionIdle ==
    /\ rgFile = [seg |-> FileSegment(<<>>, 0, 0), rd |-> None]
    /\ rgChan = [seg |-> ChannelSegment(<<>>), rd |-> None]
    /\ rgOut = [file |-> <<>>, chan |-> <<>>]

BatchIdle ==
    /\ mbSchema = <<>>
    /\ mbBuilders = <<>>
    /\ mbFault = "none"
    /\ mbLog = <<>>
    /\ mbOut = [made |-> FALSE, ok |-> FALSE, columns |-> <<>>]

World == [reader |-> reader, ext |-> ext, iterPos |-> iterPos, size |-> sizeCounter]

Init ==
    /\ mode \in Modes
    /\ ext = <<>>
    /\ iterPos = 0
    /\ reader = None
    /\ sizeCounter = 0
    /\ emitted = <<>>
    /\ ret = [op |-> "new"]
    /\ dropped = FALSE
    /\ ChanIdle
    /\ BuilderIdle
    /\ RegionIdle
    /\ BatchIdle

\* the byte strings a producer may have written into one segment
SegmentBytes(m) ==
    UNION {[1..n -> {WireToken(m), "x"}] : n \in 0..MaxBatches}

\* the segment objects the external sequence may yield to a reader of mode m
SegmentsFor(m) ==
    {ChannelSegment(b) : b \in SegmentBytes(m)}
        \cup (IF m = "ChannelAndFileSegment"
              THEN {FileSegment(b, 0, Len(b)) : b \in SegmentBytes(m)}
              ELSE {})

\* the external sequence gains a segment (before or after it was asked)
ExtOffer(seg) ==
    /\ ~dropped
    /\ Len(ext) < MaxSegs
    /\ ext' = Append(ext, seg)
    /\ UNCHANGED <<ret, mode, iterPos, reader, sizeCounter, emitted, dropped, chanVars, builderVars, regionVars, batchVars>>

\* the consumer polls the stream once
Poll(f) ==
    /\ ~dropped
    /\ FaultAllowed(f, ext, iterPos)
    /\ LET p == PollNext(World, mode, f) IN
           /\ reader' = p.w.reader
           /\ ext' = p.w.ext
           /\ iterPos' = p.w.iterPos
           /\ sizeCounter' = p.w.size
           /\ emitted' = IF p.out.kind = "batch" THEN Append(emitted, p.out.batch) ELSE emitted
           /\ ret' = [op |-> "poll", out |-> p.out, avail |-> Len(ext), from |-> iterPos]
    /\ UNCHANGED <<mode, dropped, chanVars, builderVars, regionVars, batchVars>>

\* the consumer drops the stream
DropStream(f) ==
    /\ ~dropped
    /\ FaultAllowed(f, ext, iterPos)
    /\ LET w == DropReader(World, f) IN
           /\ reader' = w.reader
           /\ ext' = w.ext
    /\ dropped' = TRUE
    /\ ret' = [op |-> "drop"]
    /\ UNCHANGED <<mode, iterPos, sizeCounter, emitted, chanVars, builderVars, regionVars, batchVars>>

Next ==
    \/ \E seg \in SegmentsFor(mode) : ExtOffer(seg)
    \/ \E f \in Faults : Poll(f)
    \/ \E f \in {"none", "close"} : DropStream(f)

Spec == Init /\ [][Next]_vars


\* ------------------------------------------------------ claims on Spec
\* the wire messages of segment i that its decoder is given: the channel's
\* bytes, or the bytes of the file inside [offset, offset + length)
Tokens(i) ==
    IF ext[i].kind = "file" /\ mode = "ChannelAndFileSegment"
    THEN SubSeq(ext[i].ch.data, ext[i].offset + 1,
                Min(ext[i].offset + ext[i].length, Len(ext[i].ch.data)))
    ELSE ext[i].ch.data

\* how many of them the reader has taken from the segment
Consumed(i) == IF ext[i].wrapped THEN ext[i].ch.pos - ext[i].offset ELSE 0

\* b_i cut after n messages: the batches the producer wrote among them
RECURSIVE BatchesOf(_, _)
BatchesOf(i, n) ==
    IF n = 0 THEN <<>>
    ELSE IF Tokens(i)[n] = WireToken(mode)
         THEN Append(BatchesOf(i, n - 1), Batch(i, n))
         ELSE BatchesOf(i, n - 1)

\* b_1 . b_2 . ... . b_k, each cut at what the reader has taken
RECURSIVE TakenUpTo(_)
TakenUpTo(k) ==
    IF k = 0 THEN <<>> ELSE TakenUpTo(k - 1) \o BatchesOf(k, Consumed(k))

Exhausted(i) == ext[i].wrapped => Consumed(i) = Len(Tokens(i))

PollReturned(kind) == ret.op = "poll" /\ ret.out.kind = kind

C2_ExhaustedIsTerminal ==
    [][PollReturned("eos") /\ ret'.op = "poll" =>
           ret'.out.kind \in {"eos", "err"} /\ ~reader'.some]_vars

\* the installed decoder is the one the mode and the kind of its segment ask for
DecoderMatches ==
    reader.some =>
        LET kind == ext[reader.seg].kind IN
        /\ reader.src = (IF mode = "ChannelAndFileSegment" /\ kind = "file"
                         THEN "file" ELSE "channel")
        /\ reader.compress = (mode # "ChannelUncompressed")

\* C11: the mode never changes, and after every step the installed decoder
\* is a channel source with compression off under ChannelUncompressed, a
\* channel source with compression on under Channel, and under
\* ChannelAndFileSegment a file-region source with compression on for a file
\* segment and a channel source with compression on otherwise.
C11_DecoderByModeAndKind == [][mode' = mode /\ DecoderMatches']_vars

\* the adaptive mode has read a channel segment and now reads a file segment
C11_Witness ==
    /\ mode = "ChannelAndFileSegment"
    /\ reader.some /\ reader.seg = 2 /\ reader.src = "file" /\ reader.compress
    /\ ext[1].kind = "channel" /\ ext[1].wrapped

\* segment i has handed its decoder bytes that are no batch message
DecodeFaulted(i) ==
    \E j \in 1..Consumed(i) : Tokens(i)[j] # WireToken(mode)

\* C6: a poll that returns a decode fault leaves the reader on the segment
\* that raised it, with nothing pulled after it, and as long as the stream
\* lives no later poll pulls a segment after a segment that raised one.
C6_StaysOnCorruptSegment ==
    /\ (PollReturned("err") /\ ret.out.why = "decode") =>
           reader.some /\ reader.seg = ret.out.seg /\ iterPos = ret.out.seg
    /\ \A i \in 1..Len(ext) : DecodeFaulted(i) => iterPos = i

\* the reader no longer holds segment i's handle
Released(i) == dropped \/ ~(reader.some /\ reader.seg = i)

\* C8: every handle the reader wrapped and no longer holds has had close()
\* invoked on it, and is closed unless every close() on it raised.
C8_HandlesClosed ==
    \A i \in 1..Len(ext) :
        ext[i].wrapped /\ Released(i) =>
            /\ ext[i].ch.closeCalls >= 1
            /\ ext[i].ch.open => ext[i].ch.closeCalls = ext[i].ch.closeFaults

\* the reader is dropped while a channel segment still has messages to give
C8_Witness ==
    /\ dropped
    /\ \E i \in 1..Len(ext) :
           /\ ext[i].wrapped /\ ext[i].kind = "channel"
           /\ Consumed(i) < Len(Tokens(i))
           /\ ~ext[i].ch.open /\ ext[i].ch.closeCalls = 1

\* C17: every poll ends with a batch, an error or end-of-stream; the
\* segments it pulled are among those the external sequence still had, the
\* ones it pulled and passed over were opened and had no message to give,
\* a batch comes from the last segment pulled, and end-of-stream comes only
\* with every segment pulled and no decoder left.
C17_PollTerminates ==
    ret.op = "poll" =>
        /\ ret.out.kind \in {"batch", "err", "eos"}
        /\ ret.from <= iterPos /\ iterPos <= ret.avail
        /\ \A i \in (ret.from + 1)..(iterPos - 1) :
               ext[i].wrapped /\ Tokens(i) = <<>>
        /\ PollReturned("batch") =>
               reader.some /\ reader.seg = iterPos /\ ret.out.batch.seg = iterPos
        /\ PollReturned("eos") => iterPos = ret.avail /\ ~reader.some

\* one poll passes over an empty segment and returns the batch of the next
C17_Witness ==
    /\ PollReturned("batch")
    /\ ret.from = 0 /\ iterPos = 2
    /\ ext[1].wrapped /\ Tokens(1) = <<>>

\* the handles the reader has wrapped that are open
OpenHandles == {i \in 1..Len(ext) : ext[i].wrapped /\ ext[i].ch.open}

\* C18: between steps at most one handle the reader wrapped is open, and
\* while the stream lives it is the one of the installed decoder; every
\* segment before the installed decoder's has given all its messages.
C18_OneDecoderOneHandle ==
    /\ Cardinality(OpenHandles) <= 1
    /\ ~dropped => \A i \in OpenHandles : reader.some /\ reader.seg = i
    /\ reader.some => \A i \in 1..(reader.seg - 1) : Exhausted(i)

\* the decoder of a file segment was replaced by the next segment's
C18_Witness ==
    /\ ~dropped /\ reader.some /\ reader.seg = 2
    /\ ext[1].wrapped /\ ext[1].kind = "file" /\ ~ext[1].ch.open
    /\ ext[1].ch.closeCalls = 1
    /\ OpenHandles = {2}

\* the sum of the byte sizes of a sequence of batches
RECURSIVE SumSizes(_)
SumSizes(bs) ==
    IF bs = <<>> THEN 0 ELSE BatchByteSize(bs[1]) + SumSizes(Tail(bs))

\* C20: the size counter is the sum of the byte sizes of the batches
\* emitted so far; a step that emits a batch adds that batch's size to it,
\* and every other step leaves it as it is.
C20_SizeCounterIsSum ==
    /\ [](sizeCounter = SumSizes(emitted))
    /\ [][IF emitted' # emitted
          THEN /\ PollReturned("batch")'
               /\ emitted' = Append(emitted, ret'.out.batch)
               /\ sizeCounter' = sizeCounter + BatchByteSize(ret'.out.batch)
          ELSE sizeCounter' = sizeCounter]_vars

\* two polls have emitted a batch each, a third returned end-of-stream
C20_Witness ==
    /\ PollReturned("eos")
    /\ Len(emitted) = 2
    /\ sizeCounter = BatchByteSize(emitted[1]) + BatchByteSize(emitted[2])
    /\ sizeCounter > 0

\* the last segment the reader has built a decoder for, 0 when there is none
LastWrapped(segs) ==
    IF \E i \in 1..Len(segs) : segs[i].wrapped
    THEN CHOOSE i \in 1..Len(segs) :
             segs[i].wrapped /\ \A k \in (i + 1)..Len(segs) : ~segs[k].wrapped
    ELSE 0

\* C21: a step in which hasNext, next or the construction of a decoder
\* faults returns the error and leaves the size counter and the batches
\* emitted as they were; the decoder it leaves is the one that was active
\* when the call faulted (the one of the last segment this step installed,
\* or else the one the step began with), never one for the segment whose
\* decoder could not be built; and whatever a step pulls from the external
\* sequence it installs, except the last when the step returns that error.
C21_SegmentFaultReported ==
    [][/\ \A i \in (iterPos + 1)..iterPos' :
              \/ ext'[i].wrapped
              \/ i = iterPos' /\ PollReturned("err")' /\ ret'.out.why = "jni"
       /\ (PollReturned("err")' /\ ret'.out.why = "jni") =>
              /\ sizeCounter' = sizeCounter /\ emitted' = emitted
              /\ IF LastWrapped(ext') > LastWrapped(ext)
                 THEN reader'.some /\ reader'.seg = LastWrapped(ext')
                 ELSE /\ reader'.some = reader.some
                      /\ reader.some => reader'.seg = reader.seg
              /\ reader'.some => ext'[reader'.seg].wrapped]_vars

\* a poll has used up the first segment, pulled the second and failed to
\* build its decoder: the first segment's decoder is still the active one
C21_Witness ==
    /\ PollReturned("err") /\ ret.out.why = "jni"
    /\ iterPos = 2 /\ ~ext[2].wrapped
    /\ reader.some /\ reader.seg = 1
    /\ Len(emitted) >= 1

\* ------------------------------------------------------------ SpecChan
InitChan ==
    /\ StreamIdle
    /\ BuilderIdle
    /\ RegionIdle
    /\ BatchIdle
    /\ \E len \in 0..MaxChanLen :
           ad = NewAdapter(NewChannel([i \in 1..len |-> i]))
    /\ adLive = TRUE
    /\ adRet = [op |-> "new"]

\* a caller reads into a buffer of length n
ChanRead(n, chunk, f) ==
    /\ adLive
    /\ FaultAllowed(f, <<ad>>, 0)
    /\ LET r == RBCRead(ad, n, chunk, f) IN
           /\ ad' = r.a
           /\ adRet' = [op |-> "read", ok |-> r.ok, n |-> n, bytes |-> r.bytes,
                         calls |-> r.calls, from |-> ad.ch.pos]
    /\ UNCHANGED <<adLive, streamVars, builderVars, regionVars, batchVars>>

\* a caller closes the adapter explicitly
ChanClose(f) ==
    /\ adLive
    /\ FaultAllowed(f, <<ad>>, 0)
    /\ LET c == RBCClose(ad, f) IN
           /\ ad' = c.a
           /\ adRet' = [op |-> "close", ok |-> c.ok]
    /\ UNCHANGED <<adLive, streamVars, builderVars, regionVars, batchVars>>

\* the adapter goes out of scope
ChanDrop(f) ==
    /\ adLive
    /\ FaultAllowed(f, <<ad>>, 0)
    /\ ad' = RBCDrop(ad, f)
    /\ adLive' = FALSE
    /\ adRet' = [op |-> "drop"]
    /\ UNCHANGED <<streamVars, builderVars, regionVars, batchVars>>

NextChan ==
    \/ \E n \in 0..MaxChanLen, chunk \in 1..MaxChanLen, f \in {"none", "read", "close"} :
           ChanRead(n, chunk, f)
    \/ \E f \in {"none", "close"} : ChanClose(f)
    \/ \E f \in {"none", "close"} : ChanDrop(f)

SpecChan == InitChan /\ [][NextChan]_vars

\* C7: over any sequence of read, close and drop on one adapter the foreign
\* channel's close() is invoked at most once, a faulting close included.
C7_CloseAtMostOnce == ad.ch.closeCalls <= 1

\* C15: a read into a buffer of length n that returns a count returns the
\* bytes the foreign reads of that call handed over, in order, at most n of
\* them; it returns fewer than n only when the adapter is closed, and when
\* the foreign channel was asked at all, only when the channel has no data
\* left.
C15_ReadFillsBuffer ==
    adRet.op = "read" /\ adRet.ok =>
        /\ Len(adRet.bytes) <= adRet.n
        /\ adRet.bytes = SubSeq(ad.ch.data, adRet.from + 1, ad.ch.pos)
        /\ Len(adRet.bytes) < adRet.n =>
               /\ ad.closed
               /\ adRet.calls > 0 => ad.ch.pos = Len(ad.ch.data)

C15_Witness ==
    /\ adRet.op = "read" /\ adRet.ok
    /\ adRet.calls >= 2 /\ adRet.n >= 2
    /\ Len(adRet.bytes) = adRet.n
    /\ ~ad.closed /\ ad.ch.pos < Len(ad.ch.data)

\* C16: a read on a closed adapter returns zero bytes, does not fault and
\* invokes neither read nor close on the foreign channel.
C16_ClosedReadsReturnZero ==
    [][ad.closed /\ adRet'.op = "read" =>
           /\ adRet'.ok /\ adRet'.bytes = <<>> /\ adRet'.calls = 0
           /\ ad' = ad]_vars

C16_Witness ==
    /\ ad.closed /\ adRet.op = "read" /\ adRet.ok
    /\ adRet.n > 0 /\ adRet.calls = 0 /\ adRet.bytes = <<>>
    /\ ad.ch.closeCalls = 1 /\ ad.ch.pos < Len(ad.ch.data)

\* --------------------------------------------------------- SpecBuilder
\* the data types SpecBuilder makes builders for: every type make_builder
\* is handed, Null, decimals of both widths, a dictionary of every key and
\* value type that has an arm, and dictionaries that have none
LogicalTypes ==
    {DT("Null")} \cup MakeBuilderTypes
        \cup {Decimal128(10, 2), Decimal128(38, 0), Decimal256(10, 2), Decimal256(76, 10)}
        \cup {Dictionary(k, v) : k \in IntTags, v \in PrimTags \cup {"Utf8", "LargeUtf8"}}
        \cup {Dictionary("Int32", "Boolean"), Dictionary("Int32", "Binary")}

\* the column a caller extends from: a null row and two rows of different
\* values (a dictionary column stores them in the other order)
SourceArray(dt) ==
    IF dt.tag = "Null" THEN NullArray(3)
    ELSE IF dt.tag = "Dictionary"
    THEN Array(dt, <<NullSlot, Slot(1), Slot(0)>>, <<2, 1>>)
    ELSE Array(dt, <<NullSlot, Slot(1), Slot(2)>>, <<>>)

\* a dictionary column with as many different values as an Int8 key can
\* tell apart, none of them a value of SourceArray
FullSource(dt) ==
    Array(dt, [j \in 1..(2 ^ KeyBits("Int8")) |-> Slot(j - 1)],
              [j \in 1..(2 ^ KeyBits("Int8")) |-> j + 2])

AllRows(array) == [j \in 1..Len(array.rows) |-> j]

\* the index lists a caller passes: any order, duplicates allowed
IndexLists(n) == UNION {[1..k -> 1..3] : k \in 0..n}

\* A builder fresh from new_array_builder, or, for an Int8-keyed dictionary,
\* also one that a first builder_extend has filled from FullSource.
InitBuilder ==
    /\ StreamIdle
    /\ ChanIdle
    /\ RegionIdle
    /\ BatchIdle
    /\ bType \in LogicalTypes
    /\ bRoom = MaxRows
    /\ LET nb == NewArrayBuilder(bType)
           full == BuilderExtend(nb.b, FullSource(bType), AllRows(FullSource(bType)), bType)
       IN  \/ /\ bld = nb.b
              /\ bFault = nb.fault
              /\ bLast = [op |-> "new", dt |-> bType, before |-> NoBuilder,
                          src |-> NoArray, idx |-> <<>>, out |-> NoArray]
           \/ /\ bType.tag = "Dictionary" /\ bType.key = "Int8" /\ nb.fault = "none"
              /\ bld = full.b
              /\ bFault = full.fault
              /\ bLast = [op |-> "extend", dt |-> bType, before |-> nb.b,
                          src |-> FullSource(bType),
                          idx |-> AllRows(FullSource(bType)), out |-> NoArray]

\* builder_extend(builder, array, indices, data_type)
BExtend(indices) ==
    /\ bFault = "none"
    /\ Len(indices) <= bRoom
    /\ LET r == BuilderExtend(bld, SourceArray(bType), indices, bType) IN
           /\ bld' = r.b
           /\ bFault' = r.fault
    /\ bLast' = [op |-> "extend", dt |-> bType, before |-> bld,
                 src |-> SourceArray(bType), idx |-> indices, out |-> NoArray]
    /\ bRoom' = bRoom - Len(indices)
    /\ UNCHANGED <<bType, streamVars, chanVars, regionVars, batchVars>>

\* builder_append_null(builder, data_type)
BAppendNull ==
    /\ bFault = "none"
    /\ bRoom >= 1
    /\ LET r == BuilderAppendNull(bld, bType) IN
           /\ bld' = r.b
           /\ bFault' = r.fault
    /\ bLast' = [op |-> "append_null", dt |-> bType, before |-> bld, src |-> NoArray,
                 idx |-> <<>>, out |-> NoArray]
    /\ bRoom' = bRoom - 1
    /\ UNCHANGED <<bType, streamVars, chanVars, regionVars, batchVars>>

\* builder.finish()
BFinish ==
    /\ bFault = "none"
    /\ LET r == Finish(bld) IN
           /\ bld' = r.b
           /\ bLast' = [op |-> "finish", dt |-> bType, before |-> bld, src |-> NoArray,
                        idx |-> <<>>, out |-> r.array]
    /\ bFault' = FinishFault(bld)
    /\ UNCHANGED <<bType, bRoom, streamVars, chanVars, regionVars, batchVars>>

NextBuilder ==
    \/ \E indices \in IndexLists(MaxRows) : BExtend(indices)
    \/ BAppendNull
    \/ BFinish

SpecBuilder == InitBuilder /\ [][NextBuilder]_vars

\* the logical value of row j of an array: a dictionary row is its key
\* resolved in the values, a row of a NullArray is null
Decode(array, j) ==
    IF ~array.rows[j].valid THEN NullSlot
    ELSE IF array.dt.tag = "Dictionary"
    THEN Slot(array.values[array.rows[j].v + 1])
    ELSE array.rows[j]

\* rows from + 1 .. from + Len(indices) of dst are the rows of src that
\* indices selects, in the order of indices
Selected(dst, from, src, indices) ==
    /\ Len(dst.rows) = from + Len(indices)
    /\ \A j \in 1..Len(indices) : Decode(dst, from + j) = Decode(src, indices[j])

\* C3: a builder_extend that returns has appended exactly len(indices)
\* elements after what the builder held, element j the source's value at
\* indices[j] or a null where the source is null.
C3_ExtendAppendsEach ==
    (bLast.op = "extend" /\ bFault = "none") =>
        /\ BuilderLen(bld) = BuilderLen(bLast.before) + Len(bLast.idx)
        /\ Selected(FinishCloned(bld), BuilderLen(bLast.before), bLast.src, bLast.idx)

\* C4: builder_append_null on a builder new_array_builder returned does not
\* fault and appends exactly one element, a null.
C4_AppendNullAppendsOne ==
    bLast.op = "append_null" =>
        /\ bFault = "none"
        /\ BuilderLen(bld) = BuilderLen(bLast.before) + 1
        /\ ~FinishCloned(bld).rows[BuilderLen(bld)].valid

\* C5: finish on a builder fresh from new_array_builder returns an array of
\* length zero whose data type is the type the builder was made for.
C5_FreshFinishKeepsType ==
    (bLast.op = "finish" /\ bLast.before = NewArrayBuilder(bType).b) =>
        /\ Len(bLast.out.rows) = 0
        /\ bLast.out.dt = bType

\* C9: when finish follows a builder_extend on a dictionary builder, the
\* rows of the finished array that the extend added decode to the logical
\* values and nulls of the source rows selected, whatever the key codes.
C9_DictionaryRoundTrip ==
    [][(/\ bType.tag = "Dictionary"
        /\ bLast.op = "extend" /\ bFault = "none"
        /\ bLast'.op = "finish") =>
           Selected(bLast'.out, BuilderLen(bLast.before), bLast.src, bLast.idx)]_vars

\* C22: finish returns an array as long as the builder was and leaves the
\* builder empty: len() is 0 right after finish, so a second finish with no
\* append in between returns an array of length zero.
C22_FinishConsumes ==
    (bLast.op = "finish" /\ bFault = "none") =>
        /\ Len(bLast.out.rows) = BuilderLen(bLast.before)
        /\ BuilderLen(bld) = 0
        /\ Len(Finish(bld).array.rows) = 0

\* --------------------------------------------------------- SpecDecimal
\* the precisions and scales a ConfiguredDecimalBuilder is constructed with
DecimalConfigs ==
    {Decimal128(10, 2), Decimal128(38, 0), Decimal128(39, 0), Decimal128(2, 3),
     Decimal256(76, 10), Decimal256(77, 0)}

\* bLast.src holds, as an array of the builder's type, the values and nulls
\* handed to the builder since it was constructed or last finished
HandedSoFar ==
    Array(bType, IF bLast.op = "finish" THEN <<>> ELSE bLast.src.rows, <<>>)

Handed(slot) == Array(bType, Append(HandedSoFar.rows, slot), <<>>)

InitDecimal ==
    /\ StreamIdle
    /\ ChanIdle
    /\ RegionIdle
    /\ BatchIdle
    /\ bType \in DecimalConfigs
    /\ bRoom = MaxRows
    /\ bld = WithCapacity(bType.tag, bType.precision, bType.scale)
    /\ bFault = "none"
    /\ bLast = [op |-> "new", dt |-> bType, before |-> NoBuilder,
                src |-> Array(bType, <<>>, <<>>), idx |-> <<>>, out |-> NoArray]

CAppendValue(v) ==
    /\ bFault = "none" /\ bRoom >= 1
    /\ bld' = AppendValue(bld, v)
    /\ bLast' = [op |-> "append_value", dt |-> bType, before |-> bld,
                 src |-> Handed(Slot(v)), idx |-> <<>>, out |-> NoArray]
    /\ bRoom' = bRoom - 1
    /\ UNCHANGED <<bType, bFault, streamVars, chanVars, regionVars, batchVars>>

CAppendOption(slot) ==
    /\ bFault = "none" /\ bRoom >= 1
    /\ bld' = AppendOption(bld, slot)
    /\ bLast' = [op |-> "append_option", dt |-> bType, before |-> bld,
                 src |-> Handed(slot), idx |-> <<>>, out |-> NoArray]
    /\ bRoom' = bRoom - 1
    /\ UNCHANGED <<bType, bFault, streamVars, chanVars, regionVars, batchVars>>

CAppendNull ==
    /\ bFault = "none" /\ bRoom >= 1
    /\ bld' = AppendNull(bld)
    /\ bLast' = [op |-> "append_null", dt |-> bType, before |-> bld,
                 src |-> Handed(NullSlot), idx |-> <<>>, out |-> NoArray]
    /\ bRoom' = bRoom - 1
    /\ UNCHANGED <<bType, bFault, streamVars, chanVars, regionVars, batchVars>>

\* finish(): the array is out, bLast.src what had been handed over
CFinish ==
    /\ bFault = "none"
    /\ bld' = Finish(bld).b
    /\ bFault' = FinishFault(bld)
    /\ bLast' = [op |-> "finish", dt |-> bType, before |-> bld, src |-> HandedSoFar,
                 idx |-> <<>>, out |-> Finish(bld).array]
    /\ UNCHANGED <<bType, bRoom, streamVars, chanVars, regionVars, batchVars>>

CFinishCloned ==
    /\ bFault = "none"
    /\ bFault' = FinishFault(bld)
    /\ bLast' = [op |-> "finish_cloned", dt |-> bType, before |-> bld, src |-> HandedSoFar,
                 idx |-> <<>>, out |-> FinishCloned(bld)]
    /\ UNCHANGED <<bType, bld, bRoom, streamVars, chanVars, regionVars, batchVars>>

NextDecimal ==
    \/ \E v \in 1..2 : CAppendValue(v)
    \/ \E slot \in {NullSlot, Slot(1), Slot(2)} : CAppendOption(slot)
    \/ CAppendNull
    \/ CFinish
    \/ CFinishCloned

SpecDecimal == InitDecimal /\ [][NextDecimal]_vars

\* C19: no call on a ConfiguredDecimalBuilder faults, its precision and
\* scale stay the ones it was constructed with, finish and finish_cloned
\* return the values and nulls handed to it, in order, in an array of that
\* precision and scale, and finish_cloned leaves the builder as it was.
C19_DecimalKeepsMetadata ==
    /\ bFault = "none"
    /\ bld.precision = bType.precision /\ bld.scale = bType.scale
    /\ bLast.op \in {"finish", "finish_cloned"} =>
           /\ bLast.out.dt = bType
           /\ bLast.out.rows = bLast.src.rows
    /\ bLast.op = "finish_cloned" => bld = bLast.before

\* -------------------------------------------------------- SpecDispatch
\* The dispatchers called with a declared type, a builder and a source that
\* need not belong together.
DispatchTypes ==
    {DT("Null"), DT("Int32"), DT("Utf8"), DT("LargeUtf8"),
     Timestamp("Second", ""), Timestamp("Second", "UTC"),
     Decimal128(10, 2), Decimal128(38, 0),
     Dictionary("Int8", "Int32"), Dictionary("Int32", "Utf8"),
     Dictionary("Int32", "LargeUtf8"), Dictionary("Int32", "Boolean")}

\* the source columns a call declared as dt is given: one of type dt, and
\* columns of other types
SourceTypes(dt) == {dt, DT("Int32"), Dictionary("Int32", "LargeUtf8")}

InitDispatch ==
    /\ StreamIdle
    /\ ChanIdle
    /\ RegionIdle
    /\ BatchIdle
    /\ bType \in DispatchTypes
    /\ bRoom = MaxCalls
    /\ bld = NewArrayBuilder(bType).b
    /\ bFault = NewArrayBuilder(bType).fault
    /\ bLast = [op |-> "new", dt |-> bType, before |-> NoBuilder, src |-> NoArray,
                idx |-> <<>>, out |-> NoArray]

\* builder_extend(builder, array, indices, data_type), any data_type and array
DExtend(dt, st, indices) ==
    /\ bFault = "none"
    /\ bRoom >= 1
    /\ LET r == BuilderExtend(bld, SourceArray(st), indices, dt) IN
           /\ bld' = r.b
           /\ bFault' = r.fault
    /\ bLast' = [op |-> "extend", dt |-> dt, before |-> bld, src |-> SourceArray(st),
                 idx |-> indices, out |-> NoArray]
    /\ bRoom' = bRoom - 1
    /\ UNCHANGED <<bType, streamVars, chanVars, regionVars, batchVars>>

\* builder_append_null(builder, data_type), any data_type
DAppendNull(dt) ==
    /\ bFault = "none"
    /\ bRoom >= 1
    /\ LET r == BuilderAppendNull(bld, dt) IN
           /\ bld' = r.b
           /\ bFault' = r.fault
    /\ bLast' = [op |-> "append_null", dt |-> dt, before |-> bld, src |-> NoArray,
                 idx |-> <<>>, out |-> NoArray]
    /\ bRoom' = bRoom - 1
    /\ UNCHANGED <<bType, streamVars, chanVars, regionVars, batchVars>>

NextDispatch ==
    \/ \E dt \in DispatchTypes, indices \in {<<2>>, <<3, 1>>} :
           \E st \in SourceTypes(dt) : DExtend(dt, st, indices)
    \/ \E dt \in DispatchTypes : DAppendNull(dt)

SpecDispatch == InitDispatch /\ [][NextDispatch]_vars

\* the last call was handed a builder that is not the one new_array_builder
\* makes for the declared type, or (extend) a source that is no column of it
Mismatched ==
    \/ bLast.before.cls # NewArrayBuilder(bLast.dt).b.cls
    \/ bLast.op = "extend" /\ ArrayClass(bLast.src.dt) # ArrayClass(bLast.dt)

\* C12: a builder_extend or builder_append_null whose declared type has an
\* arm, called with a builder or a source of another concrete
\* representation, ends in the downcast's fault and leaves the builder as
\* it was.
C12_MismatchFaultsFirst ==
    (/\ bLast.op \in {"extend", "append_null"}
     /\ (IF bLast.op = "extend" THEN ExtendClass(bLast.dt) ELSE AppendNullClass(bLast.dt))
            # <<"">>
     /\ Mismatched) =>
        bFault = "unwrap" /\ bld = bLast.before

\* new_array_builder returns a builder for dt
Supported(dt) == NewArrayBuilder(dt).fault = "none"

\* C13: the three dispatchers accept the same types: a type
\* new_array_builder makes a builder for is never unimplemented in
\* builder_extend or builder_append_null, and a type it has no builder for
\* is unimplemented in both, with nothing made and nothing appended.
C13_SameSupportedTypes ==
    /\ (bLast.op = "new" /\ ~Supported(bLast.dt)) =>
           bFault = "unimplemented" /\ bld = NoBuilder
    /\ bLast.op \in {"extend", "append_null"} =>
           IF Supported(bLast.dt)
           THEN bFault # "unimplemented"
           ELSE bFault = "unimplemented" /\ bld = bLast.before

\* ----------------------------------------------------------- SpecBatch
\* the field types of the schemas SpecBatch builds batches for
BatchTypes ==
    {DT("Null"), DT("Int32"), DT("Utf8"), Decimal128(10, 2),
     Dictionary("Int32", "Utf8"), Dictionary("Int32", "LargeUtf8")}

Schemas == UNION {[1..n -> BatchTypes] : n \in 1..MaxFields}

\* column c of the source batch, of type dt: three rows, one of them null
\* (the first in odd columns, the last in even ones), the others two values
\* no other column holds
BatchSource(dt, c) ==
    LET x == SourceArray(dt)
        shift(slot) == IF slot.valid THEN Slot(slot.v + 10 * c) ELSE slot
        turn(rows) == IF c % 2 = 1 THEN rows ELSE <<rows[2], rows[3], rows[1]>>
    IN  IF dt.tag = "Null" THEN x
        ELSE IF dt.tag = "Dictionary"
        THEN Array(dt, turn(x.rows), [k \in 1..Len(x.values) |-> x.values[k] + 10 * c])
        ELSE Array(dt, turn([k \in 1..Len(x.rows) |-> shift(x.rows[k])]), <<>>)

\* the first panic among the calls made on the columns, "none" without one
FirstFault(results) ==
    IF \E c \in 1..Len(results) : results[c].fault # "none"
    THEN results[CHOOSE c \in 1..Len(results) :
                     /\ results[c].fault # "none"
                     /\ \A d \in 1..(c - 1) : results[d].fault = "none"].fault
    ELSE "none"

InitBatch ==
    /\ StreamIdle
    /\ ChanIdle
    /\ BuilderIdle
    /\ RegionIdle
    /\ mbSchema \in Schemas
    /\ mbBuilders = [c \in 1..Len(mbSchema) |-> NewArrayBuilders(mbSchema)[c].b]
    /\ mbFault = FirstFault(NewArrayBuilders(mbSchema))
    /\ mbLog = <<>>
    /\ mbOut = [made |-> FALSE, ok |-> FALSE, columns |-> <<>>]

\* every column's builder is extended with the same indices over its column
\* of the source batch
MBExtend(indices) ==
    /\ mbFault = "none" /\ ~mbOut.made
    /\ Len(mbLog) + Len(indices) <= MaxRows
    /\ LET r == [c \in 1..Len(mbSchema) |->
                    BuilderExtend(mbBuilders[c], BatchSource(mbSchema[c], c), indices,
                                  mbSchema[c])]
       IN  /\ mbBuilders' = [c \in 1..Len(mbSchema) |-> r[c].b]
           /\ mbFault' = FirstFault(r)
    /\ mbLog' = mbLog \o indices
    /\ UNCHANGED <<mbSchema, mbOut, streamVars, chanVars, builderVars, regionVars>>

\* every column's builder is padded with one null
MBAppendNull ==
    /\ mbFault = "none" /\ ~mbOut.made
    /\ Len(mbLog) + 1 <= MaxRows
    /\ LET r == [c \in 1..Len(mbSchema) |-> BuilderAppendNull(mbBuilders[c], mbSchema[c])]
       IN  /\ mbBuilders' = [c \in 1..Len(mbSchema) |-> r[c].b]
           /\ mbFault' = FirstFault(r)
    /\ mbLog' = Append(mbLog, 0)
    /\ UNCHANGED <<mbSchema, mbOut, streamVars, chanVars, builderVars, regionVars>>

\* make_batch(schema, builders)
MBMakeBatch ==
    /\ mbFault = "none" /\ ~mbOut.made
    /\ LET r == MakeBatch(mbSchema, mbBuilders) IN
           /\ mbBuilders' = r.arrays
           /\ mbOut' = [made |-> TRUE, ok |-> r.ok, columns |-> r.columns]
    /\ mbFault' = FirstFault([c \in 1..Len(mbBuilders) |-> [fault |-> FinishFault(mbBuilders[c])]])
    /\ UNCHANGED <<mbSchema, mbLog, streamVars, chanVars, builderVars, regionVars>>

NextBatchBuild ==
    \/ \E indices \in IndexLists(MaxRows) : MBExtend(indices)
    \/ MBAppendNull
    \/ MBMakeBatch

SpecBatch == InitBatch /\ [][NextBatchBuild]_vars

\* C14: filling the builders of a schema column by column with the same
\* index lists and the same padding never faults, and make_batch then
\* succeeds with one column per field, of the field's type, every column as
\* long as the rows appended, and row j of every column the value or null
\* of the source row that row j was taken from.
C14_BatchOfAlignedColumns ==
    /\ mbFault = "none"
    /\ mbOut.made =>
           /\ mbOut.ok
           /\ Len(mbOut.columns) = Len(mbSchema)
           /\ \A c \in 1..Len(mbOut.columns) :
                  LET col == mbOut.columns[c] IN
                  /\ col.dt = mbSchema[c]
                  /\ Len(col.rows) = Len(mbLog)
                  /\ \A j \in 1..Len(col.rows) :
                         Decode(col, j) =
                             IF mbLog[j] = 0 THEN NullSlot
                             ELSE Decode(BatchSource(mbSchema[c], c), mbLog[j])

\* ----------------------------------------------------------- SpecRegion
\* A file, a region of it, and a channel that carries the region's bytes;
\* each is given the reader next_segment builds for it in the mode that
\* takes both kinds.
InitRegion ==
    /\ StreamIdle
    /\ ChanIdle
    /\ BuilderIdle
    /\ BatchIdle
    /\ \E bytes \in UNION {[1..n -> {"z", "u", "x"}] : n \in 0..MaxFileLen} :
       \E offset \in 0..Len(bytes) :
       \E length \in 0..MaxFileLen :
           LET inside == SubSeq(bytes, offset + 1, Min(offset + length, Len(bytes)))
               mf == MakeReader("ChannelAndFileSegment", 1, FileSegment(bytes, offset, length))
               mc == MakeReader("ChannelAndFileSegment", 1, ChannelSegment(inside))
           IN  /\ rgFile = [seg |-> mf.seg, rd |-> mf.reader]
               /\ rgChan = [seg |-> mc.seg, rd |-> mc.reader]
    /\ rgOut = [file |-> <<>>, chan |-> <<>>]

\* next_batch is called on both readers
RegionNextBatch ==
    /\ rgFile.rd.some
    /\ Len(rgOut.file) <= MaxFileLen
    /\ LET nf == NextBatch(rgFile.rd, rgFile.seg, "none")
           nc == NextBatch(rgChan.rd, rgChan.seg, "none")
       IN  /\ rgFile' = [seg |-> nf.seg, rd |-> nf.r]
           /\ rgChan' = [seg |-> nc.seg, rd |-> nc.r]
           /\ rgOut' = [file |-> Append(rgOut.file, nf.res),
                        chan |-> Append(rgOut.chan, nc.res)]
    /\ UNCHANGED <<streamVars, chanVars, builderVars, batchVars>>

\* both readers go out of scope
RegionDrop ==
    /\ rgFile.rd.some
    /\ rgFile' = [seg |-> DropInput(rgFile.rd, rgFile.seg, "none"), rd |-> None]
    /\ rgChan' = [seg |-> DropInput(rgChan.rd, rgChan.seg, "none"), rd |-> None]
    /\ UNCHANGED <<rgOut, streamVars, chanVars, builderVars, batchVars>>

NextRegion ==
    \/ RegionNextBatch
    \/ RegionDrop

SpecRegion == InitRegion /\ [][NextRegion]_vars

\* where the region ends in the file
RegionEnd == Min(rgFile.seg.offset + rgFile.seg.length, Len(rgFile.seg.ch.data))

\* C10: the file-region reader and the channel reader over the region's
\* bytes have returned the same results in the same order; the file has
\* been read from offset on and never past offset + length, and once
\* end-of-data was returned every byte of the region had been delivered.
C10_RegionAsChannel ==
    /\ rgOut.file = rgOut.chan
    /\ rgFile.seg.ch.pos - rgFile.seg.offset = rgChan.seg.ch.pos
    /\ rgFile.seg.ch.pos <= RegionEnd
    /\ \A j \in 1..Len(rgOut.file) :
           rgOut.file[j].kind = "none" => rgFile.seg.ch.pos = RegionEnd

\* a region in the middle of a longer file has given a batch and then
\* end-of-data
C10_Witness ==
    /\ rgFile.seg.offset > 0
    /\ rgFile.seg.length > 0
    /\ rgFile.seg.offset + rgFile.seg.length < Len(rgFile.seg.ch.data)
    /\ Len(rgOut.file) >= 2
    /\ rgOut.file[1].kind = "some"
    /\ rgOut.file[Len(rgOut.file)].kind = "none"

====
